---- MODULE Spec2Model ----
(***************************************************************************)
(* A model of the blased crate (src/src/lib.rs): the round_to_even         *)
(* primitive in its two builds, Player::score and Player::rating, and the  *)
(* BlaseballClient request operations.                                     *)
(*                                                                         *)
(* f64 values are modelled by a scaled-down binary floating-point format   *)
(* with the structure of IEEE-754 binary64: a sign bit, MantBits bits of   *)
(* precision, subnormals, signed zeros and round-to-nearest-ties-to-even   *)
(* on every inexact arithmetic result.  A magnitude is counted in units    *)
(* of the smallest subnormal, 2^-FracBits.                                 *)
(***************************************************************************)
EXTENDS Integers, Sequences, FiniteSets, TLC

VARIABLES
    x,          \* round_to_even: the argument
    hw,         \* round_to_even(x) of the x86_64 build, or None
    sw,         \* round_to_even(x) of the build for any other target, or None
    hw2,        \* round_to_even(hw) of the x86_64 build, or None
    sw2,        \* round_to_even(sw) of the other build, or None
    target,     \* the target_arch the crate is built for
    player,     \* the Player that score and rating are called on
    cat,        \* the Score category of the call
    day,        \* the day of Score::Vibes { day }
    score,      \* the value returned by Player::score, or None
    rating,     \* the value returned by Player::rating, or None
    stderr,     \* what the process has written to its standard error
    pc,         \* the position of the caller of score and rating
    clients,    \* the client values constructed so far, in order of construction
    call,       \* the client operation in progress, or the last one finished
    wire,       \* the requests that operation has handed to the HTTP transport
    result      \* what that operation returned to its caller

roundVars == <<x, hw, sw, hw2, sw2>>

playerVars == <<target, player, cat, day, score, rating, stderr, pc>>

clientVars == <<clients, call, wire, result>>

vars == <<roundVars, playerVars, clientVars>>


----------------------------------------------------------------------------
(* The floating-point format.                                              *)

MantBits == 4       \* bits of precision (53 in binary64)
FracBits == 4       \* the smallest subnormal is 2^-FracBits (2^-1074 in binary64)
ExpMax == 3         \* the largest binade is [2^ExpMax, 2^(ExpMax+1)) (1023 in binary64)

RECURSIVE Pow2(_)
Pow2(n) == IF n <= 0 THEN 1 ELSE 2 * Pow2(n - 1)

\* The magnitude of 1.0.
Unit == Pow2(FracBits)

\* Mantissas are below MantLimit.
MantLimit == Pow2(MantBits)

\* The quantum (unit in the last place) of a magnitude is 2^k units, 0 <= k <= MaxQuantumExp.
MaxQuantumExp == ExpMax - MantBits + 1 + FracBits

\* The representable finite magnitudes.
Mags == {m * Pow2(k) : m \in 0..(MantLimit - 1), k \in 0..MaxQuantumExp}

MaxMag == (MantLimit - 1) * Pow2(MaxQuantumExp)

\* The magnitude standing for infinity (an overflowed result).
InfMag == MaxMag + 1

F64(neg, mag) == [neg |-> neg, mag |-> mag]

\* No f64: the value of a result not computed yet.
None == F64(FALSE, 0 - 1)

\* Every finite f64, both zeros included.
Finite == [neg : BOOLEAN, mag : Mags]

\* The real value of a finite f64, in units.
Val(a) == IF a.neg THEN 0 - a.mag ELSE a.mag

AbsInt(n) == IF n < 0 THEN 0 - n ELSE n

\* The exponent of the quantum that the real a/d (in units) is rounded at.
RECURSIVE QuantumExp(_, _, _)
QuantumExp(a, d, k) ==
    IF a < MantLimit * Pow2(k) * d \/ k >= MaxQuantumExp
    THEN k
    ELSE QuantumExp(a, d, k + 1)

\* The real a/d (in units, a >= 0, d > 0) rounded to the nearest representable
\* magnitude, ties to the even mantissa: the rounding of every f64 operation.
RoundMag(a, d) ==
    LET k == QuantumExp(a, d, 0)
        q == d * Pow2(k)
        m == a \div q
        r == a % q
        up == (2 * r > q) \/ (2 * r = q /\ m % 2 = 1)
        m2 == IF up THEN m + 1 ELSE m
    IN  IF m2 * Pow2(k) > MaxMag THEN InfMag ELSE m2 * Pow2(k)

FNeg(a) == F64(~a.neg, a.mag)

FAbs(a) == F64(FALSE, a.mag)

\* a == b on f64: numeric equality, so that -0.0 == 0.0.
FEq(a, b) == Val(a) = Val(b)

FAdd(a, b) ==
    LET s == Val(a) + Val(b)
    IN  IF s = 0 THEN F64(a.neg /\ b.neg, 0) ELSE F64(s < 0, RoundMag(AbsInt(s), 1))

FSub(a, b) == FAdd(a, FNeg(b))

FMul(a, b) == F64(a.neg # b.neg, RoundMag(a.mag * b.mag, Unit))

\* a / b for b # 0.
FDiv(a, b) == F64(a.neg # b.neg, RoundMag(a.mag * Unit, b.mag))

\* An integer literal or an `as f64` conversion.
FInt(n) == F64(n < 0, RoundMag(AbsInt(n) * Unit, 1))

Half == F64(FALSE, Unit \div 2)

\* f64::round: to the nearest integer, halfway cases away from zero; the sign is kept.
Round(a) ==
    LET i == a.mag \div Unit
        f == a.mag % Unit
    IN  F64(a.neg, (IF 2 * f >= Unit THEN i + 1 ELSE i) * Unit)

\* _mm_round_pd(v, _MM_FROUND_TO_NEAREST_INT): to the nearest integer, halfway
\* cases to the even integer; the sign is kept.
MmRoundNearest(a) ==
    LET i == a.mag \div Unit
        f == a.mag % Unit
        up == (2 * f > Unit) \/ (2 * f = Unit /\ i % 2 = 1)
    IN  F64(a.neg, (IF up THEN i + 1 ELSE i) * Unit)

----------------------------------------------------------------------------
(* round_to_even, in its two builds.                                       *)

\* A slip in the intrinsic's rounding mode: _MM_FROUND_TO_ZERO.
round_to_even_x86_64_truncating(a) == F64(a.neg, (a.mag \div Unit) * Unit)

\* #[cfg(target_arch = "x86_64")]
round_to_even_x86_64(a) == MmRoundNearest(a)

\* A slip in the portable algorithm: the halfway test left out.
round_to_even_fallback_no_tie(a) == Round(a)

\* A slip in the portable algorithm: the halfway test against 0.0 instead of 0.5.
round_to_even_fallback_zero_test(a) ==
    LET rounded == Round(a)
    IN  IF FEq(FAbs(FSub(a, rounded)), FInt(0))
        THEN FMul(FInt(2), Round(FDiv(a, FInt(2))))
        ELSE rounded

\* #[cfg(not(target_arch = "x86_64"))]
round_to_even_fallback(a) ==
    LET rounded == Round(a)
    IN  IF FEq(FAbs(FSub(a, rounded)), Half)
        THEN FMul(FInt(2), Round(FDiv(a, FInt(2))))
        ELSE rounded

\* round_to_even as the build for `target` compiles it.
round_to_even(a) ==
    IF target = "x86_64" THEN round_to_even_x86_64(a) ELSE round_to_even_fallback(a)

Targets == {"x86_64", "other"}

----------------------------------------------------------------------------
(* Player::score and Player::rating.                                       *)

\* The f64 fields of Player.
Attrs ==
    {"anticapitalism", "base_thirst", "buoyancy", "chasiness", "coldness",
     "continuation", "divinity", "ground_friction", "indulgence", "laserlikeness",
     "martyrdom", "moxie", "musclitude", "omniscience", "overpowerment",
     "patheticism", "ruthlessness", "shakespearianism", "suppression",
     "tenaciousness", "thwackability", "tragicness", "unthwackability",
     "watchfulness", "pressurization", "cinnamon"}

\* enum Score; the day of Vibes is held apart.
Categories == {"Batting", "Pitching", "Defense", "Baserunning", "Vibes"}

Zero == F64(FALSE, 0)

One == F64(FALSE, Unit)

\* The magnitudes of the f64 in [0, 1].
Mags01 == {m \in Mags : m <= Unit}

SetMax(S) == CHOOSE m \in S : \A n \in S : n <= m

SetMin(S) == CHOOSE m \in S : \A n \in S : m <= n

\* The real square root of m units, in units and rounded down, for m units in [0, 1].
SqrtDown(m) ==
    CHOOSE r \in 0..Unit : r * r <= m * Unit /\ (r + 1) * (r + 1) > m * Unit

\* The real square root of m units, in units and rounded up, for m units in [0, 1].
SqrtUp(m) ==
    CHOOSE r \in 0..Unit : r * r >= m * Unit /\ (r = 0 \/ (r - 1) * (r - 1) < m * Unit)

\* A lower bound, in units, of the real (m units)^(1/2^j), for m units in [0, 1].
RECURSIVE RootDown(_, _)
RootDown(m, j) == IF j = 0 THEN m ELSE RootDown(SqrtDown(m), j - 1)

\* An upper bound, in units, of the real (m units)^(1/2^j), for m units in [0, 1].
RECURSIVE RootUp(_, _)
RootUp(m, j) == IF j = 0 THEN m ELSE RootUp(SqrtUp(m), j - 1)

\* The largest j with 1/2^j >= e/1000, from j up, for 0 < e <= 1000.
RECURSIVE HalvingsAbove(_, _)
HalvingsAbove(e, j) == IF e * Pow2(j + 1) > 1000 THEN j ELSE HalvingsAbove(e, j + 1)

\* The smallest j with 1/2^j <= e/1000, from j up.
RECURSIVE HalvingsBelow(_, _)
HalvingsBelow(e, j) == IF e * Pow2(j) >= 1000 THEN j ELSE HalvingsBelow(e, j + 1)

\* f64::powf(b, e/1000) for b in [0, 1] and 0 < e/1000 < 1, the only calls that a
\* Player with attributes in [0, 1] makes.  powf is the platform's libm pow: it
\* is exact at 0 and at 1, and elsewhere it returns an f64 next to the real
\* power, which lies between b^(1/2^j) for the two j that bracket the exponent.
\* The value is the set of the f64 that powf can return.
Powf(b, e) ==
    IF b.mag = 0 THEN {Zero}
    ELSE IF b.mag = Unit THEN {One}
    ELSE LET lo == RootDown(b.mag, HalvingsAbove(e, 0))
             hi == RootUp(b.mag, HalvingsBelow(e, 0))
             dn == SetMax({m \in Mags01 : m <= lo})
             up == SetMin({m \in Mags01 : m >= hi})
         IN  {F64(FALSE, m) : m \in {n \in Mags01 : dn <= n /\ n <= up}}

\* The f64 that A * B can be, for the f64 that A and B can be.
MulSet(A, B) == {FMul(a, b) : a \in A, b \in B}

CeilDiv(a, d) == (a + d - 1) \div d

\* Reals are bracketed by pairs <<lo, hi>> of integers counting 1/Scale.
Scale == 10000

\* PI lies in [PiLo/Scale, PiHi/Scale].
PiLo == 31415
PiHi == 31416

\* A bracket of the product of two bracketed non-negative reals.
BrMul(a, b) == <<(a[1] * b[1]) \div Scale, CeilDiv(a[2] * b[2], Scale)>>

\* A bracket of cos(t) for t in [0, PI/4] bracketed by t: the Taylor series, whose
\* terms alternate and decrease.
BrCos(t) ==
    LET t2 == BrMul(t, t)
        t4 == BrMul(t2, t2)
        t6 == BrMul(t4, t2)
    IN  <<Scale - CeilDiv(t2[2], 2) + (t4[1] \div 24) - CeilDiv(t6[2], 720),
          Scale - (t2[1] \div 2) + CeilDiv(t4[2], 24)>>

\* A bracket of sin(t) for t in [0, PI/4] bracketed by t.
BrSin(t) ==
    LET t2 == BrMul(t, t)
        t3 == BrMul(t2, t)
        t5 == BrMul(t3, t2)
        t7 == BrMul(t5, t2)
    IN  <<t[1] - CeilDiv(t3[2], 6) + (t5[1] \div 120) - CeilDiv(t7[2], 5040),
          t[2] - (t3[1] \div 6) + CeilDiv(t5[2], 120)>>

\* A bracket of PI * a / d for 0 <= a, 0 < d.
BrPiTimes(a, d) == <<(PiLo * a) \div d, CeilDiv(PiHi * a, d)>>

\* f64::cos((PI * day as f64) / denom) for denom > 0: the f64 nearest to the real
\* cos(PI * d / denom), or the f64 that can be nearest to it when the bracket of
\* it straddles two.  With n/dd the argument over PI, the argument is reduced
\* to [0, PI/4] by cos(t) = cos(2 PI - t) = -cos(PI - t) = sin(PI/2 - t).
Cos(d, denom) ==
    LET dd == denom.mag
        n0 == (d * Unit) % (2 * dd)
        n1 == IF n0 > dd THEN 2 * dd - n0 ELSE n0
        neg == 2 * n1 > dd
        n2 == IF neg THEN dd - n1 ELSE n1
        br == IF 4 * n2 > dd
              THEN BrSin(BrPiTimes(dd - 2 * n2, 2 * dd))
              ELSE BrCos(BrPiTimes(n2, dd))
        lo == RoundMag((IF br[1] < 0 THEN 0 ELSE br[1]) * Unit, Scale)
        hi == RoundMag((IF br[2] > Scale THEN Scale ELSE br[2]) * Unit, Scale)
    IN  {F64(neg, m) : m \in {k \in Mags01 : lo <= k /\ k <= hi}}

\* The argument of dbg! in the Vibes arm of Player::score.
VibesArg(p, d) ==
    LET denom == FAdd(FMul(FInt(5), p.buoyancy), FInt(3))
    IN  {FAdd(FSub(FMul(FAdd(p.pressurization, p.cinnamon), c), p.pressurization),
              p.cinnamon) : c \in Cos(d, denom)}

ScoreBatting(p) ==
    MulSet(MulSet(MulSet(MulSet(
        Powf(FSub(One, p.tragicness), 10),
        Powf(FSub(One, p.patheticism), 50)),
        Powf(FMul(p.thwackability, p.divinity), 350)),
        Powf(FMul(p.moxie, p.musclitude), 75)),
        Powf(p.martyrdom, 20))

ScorePitching(p) ==
    MulSet(MulSet(MulSet(MulSet(
        Powf(p.unthwackability, 500),
        Powf(p.ruthlessness, 400)),
        Powf(p.overpowerment, 150)),
        Powf(p.shakespearianism, 100)),
        Powf(p.coldness, 25))

ScoreDefense(p) ==
    MulSet(
        Powf(FMul(p.omniscience, p.tenaciousness), 200),
        Powf(FMul(FMul(p.watchfulness, p.anticapitalism), p.chasiness), 100))

ScoreBaserunning(p) ==
    MulSet(
        Powf(p.laserlikeness, 500),
        Powf(FMul(FMul(FMul(p.base_thirst, p.continuation), p.ground_friction),
                  p.indulgence), 100))

\* The Vibes arm, given the value v of the argument of dbg!.
ScoreVibes(v) == FMul(Half, round_to_even(v))

\* The attributes that Player::score reads for a category.
Reads(c) ==
    CASE c = "Batting" -> {"tragicness", "patheticism", "thwackability", "divinity",
                           "moxie", "musclitude", "martyrdom"}
      [] c = "Pitching" -> {"unthwackability", "ruthlessness", "overpowerment",
                            "shakespearianism", "coldness"}
      [] c = "Defense" -> {"omniscience", "tenaciousness", "watchfulness",
                           "anticapitalism", "chasiness"}
      [] c = "Baserunning" -> {"laserlikeness", "base_thirst", "continuation",
                               "ground_friction", "indulgence"}
      [] c = "Vibes" -> {"pressurization", "cinnamon", "buoyancy"}

\* Player::score: <<the value returned, what dbg! wrote>>, for each way the
\* library functions can round.
ScoreResults(p, c, d) ==
    CASE c = "Batting" -> {<<s, <<>>>> : s \in ScoreBatting(p)}
      [] c = "Pitching" -> {<<s, <<>>>> : s \in ScorePitching(p)}
      [] c = "Defense" -> {<<s, <<>>>> : s \in ScoreDefense(p)}
      [] c = "Baserunning" -> {<<s, <<>>>> : s \in ScoreBaserunning(p)}
      [] c = "Vibes" -> {<<ScoreVibes(v), <<v>>>> : v \in VibesArg(p, d)}

\* A slip in Player::rating: round_to_even left out.
RatingOfUnrounded(s) == FMul(Half, FMul(FInt(10), s))

\* Player::rating, given the value s of self.score(cat).
RatingOf(s) == FMul(Half, round_to_even(FMul(FInt(10), s)))

----------------------------------------------------------------------------
(* BlaseballClient, and the client that a login builds.                    *)

\* Strings are sequences of characters; IdChars are the characters of the ids.
IdChars == {"a", ","}

TeamUrl == "https://blaseball.com/database/team"

AllTeamsUrl == "https://blaseball.com/database/allTeams"

PlayersUrl == "https://blaseball.com/database/players"

LoginUrl == "login endpoint"

UserUrl == "current-user endpoint"

\* A slip in BlaseballClient::new: the client built around a session kept from before.
BlaseballClientNewWithSession ==
    [kind |-> "BlaseballClient", session |-> <<<<"ABC123">>>>]

\* BlaseballClient::new, and Default::default: a client that holds no session token.
BlaseballClientNew == [kind |-> "BlaseballClient", session |-> <<>>]

\* The client a successful login returns: it holds the token.
AuthenticatedClientOf(tok) == [kind |-> "AuthenticatedClient", session |-> <<tok>>]

\* A slip in impl BlaseballClient: the session-scoped read offered on every client.
BlaseballClientOpsWithUser == {"team", "all_teams", "players", "get_user"}

\* The operations of impl BlaseballClient.
BlaseballClientOps == {"team", "all_teams", "players"}

\* The operations of the client a login returns: the public reads and the
\* fetch of the current user.
AuthenticatedClientOps == {"team", "all_teams", "players", "get_user"}

OpsOf(c) ==
    IF c.kind = "BlaseballClient" THEN BlaseballClientOps ELSE AuthenticatedClientOps

\* The url an operation requests.
UrlOf(op) ==
    CASE op = "team" -> TeamUrl
      [] op = "all_teams" -> AllTeamsUrl
      [] op = "players" -> PlayersUrl
      [] op = "get_user" -> UserUrl
      [] op = "login" -> LoginUrl

\* What body_json decodes for an operation.
DecodedOf(op) ==
    CASE op = "team" -> "Team"
      [] op = "all_teams" -> "Vec<Team>"
      [] op = "players" -> "Vec<Player>"
      [] op = "get_user" -> "User"

\* A slip in players: the ids joined in reverse order.
RECURSIVE JoinReversed(_, _)
JoinReversed(strs, sep) ==
    IF strs = <<>> THEN <<>>
    ELSE IF Len(strs) = 1 THEN strs[1]
    ELSE JoinReversed(Tail(strs), sep) \o <<sep>> \o strs[1]

\* [&str]::join(sep): the strings in order, sep between each two.
RECURSIVE Join(_, _)
Join(strs, sep) ==
    IF strs = <<>> THEN <<>>
    ELSE IF Len(strs) = 1 THEN strs[1]
    ELSE strs[1] \o <<sep>> \o Join(Tail(strs), sep)

\* The argument of set_query in team and in players.
QueryOf(op, arg) ==
    IF op = "team" THEN <<<<"id", arg[1]>>>> ELSE <<<<"ids", Join(arg, ",")>>>>

\* The serialized form of the session cookie, sent as the Cookie header.
CookieOf(tok) == <<"connect.sid", "=">> \o tok

\* The request an operation builds before any set_query.  The current-user
\* fetch carries the client's token as its Cookie header.
RequestOf(op, c) ==
    [method |-> IF op = "login" THEN "POST" ELSE "GET",
     url |-> UrlOf(op),
     query |-> <<>>,
     cookie |-> IF op = "get_user" /\ c.session # <<>> THEN CookieOf(c.session[1]) ELSE <<>>,
     body |-> IF op = "login" THEN "{username, password, isLogin: true}" ELSE ""]

NoCall ==
    [op |-> "none", client |-> 0, arg |-> <<>>, pc |-> "idle", steps |-> <<>>,
     req |-> RequestOf("team", BlaseballClientNew), resp |-> <<>>]

NoResult == [ok |-> FALSE, what |-> "none"]

Ok(v) == [ok |-> TRUE, what |-> v]

Err(e) == [ok |-> FALSE, what |-> e]

Step(name, ok) == [step |-> name, ok |-> ok]

\* A slip in the error path: a failed send is sent again.
PropagateRetrying(c, step, e) ==
    IF step = "send"
    THEN [call |-> [c EXCEPT !.steps = Append(@, Step(step, FALSE))], result |-> NoResult]
    ELSE [call |-> [c EXCEPT !.pc = "done", !.steps = Append(@, Step(step, FALSE))],
          result |-> Err(e)]

\* The ? operator on a failed step: the operation returns the error, converted
\* to an Error by From.
Propagate(c, step, e) ==
    [call |-> [c EXCEPT !.pc = "done", !.steps = Append(@, Step(step, FALSE))],
     result |-> Err(e)]

\* The step after the one at pc has succeeded.
Advance(c, to) == [c EXCEPT !.pc = to, !.steps = Append(@, Step(c.pc, TRUE))]

----------------------------------------------------------------------------
(* The cookie extraction of login.                                         *)

\* The Set-Cookie header of a response is a sequence of tokens, each of its
\* values ended by "\n": no token is the header absent.
CookieTokens == {"connect.sid", "ABC123", "=", ";", "\n"}

\* The index of the first t in s from i on, or Len(s) + 1.
RECURSIVE IndexFrom(_, _, _)
IndexFrom(s, t, i) ==
    IF i > Len(s) \/ s[i] = t THEN i ELSE IndexFrom(s, t, i + 1)

\* The values of the header, in order.
RECURSIVE HeaderValues(_)
HeaderValues(s) ==
    IF s = <<>> THEN <<>>
    ELSE LET n == IndexFrom(s, "\n", 1)
         IN  <<SubSeq(s, 1, n - 1)>> \o HeaderValues(SubSeq(s, n + 1, Len(s)))

\* A header value parsed as a cookie: the name=value pair is what precedes the
\* first ";", the name what precedes its first "=".  A pair with no "=", or
\* with an empty name, does not parse.
ParseCookie(v) ==
    LET pair == SubSeq(v, 1, IndexFrom(v, ";", 1) - 1)
        eq == IndexFrom(pair, "=", 1)
    IN  IF eq > Len(pair) \/ eq = 1
        THEN [parsed |-> FALSE, name |-> <<>>, value |-> <<>>]
        ELSE [parsed |-> TRUE, name |-> SubSeq(pair, 1, eq - 1),
              value |-> SubSeq(pair, eq + 1, Len(pair))]

NotFound == [found |-> FALSE, token |-> <<>>]

\* A slip in the extraction: only the first value of the header is looked at.
RECURSIVE FindSessionFirstOnly(_)
FindSessionFirstOnly(vs) ==
    IF vs = <<>> THEN NotFound
    ELSE LET c == ParseCookie(vs[1])
         IN  IF c.parsed /\ c.name = <<"connect.sid">>
             THEN [found |-> TRUE, token |-> c.value]
             ELSE NotFound

\* The first value that parses as a cookie named connect.sid: its value is the token.
RECURSIVE FindSession(_)
FindSession(vs) ==
    IF vs = <<>> THEN NotFound
    ELSE LET c == ParseCookie(vs[1])
         IN  IF c.parsed /\ c.name = <<"connect.sid">>
             THEN [found |-> TRUE, token |-> c.value]
             ELSE FindSession(Tail(vs))

ExtractToken(resp) == FindSession(HeaderValues(resp))

ClientUnused ==
    /\ clients = <<>>
    /\ call = NoCall
    /\ wire = <<>>
    /\ result = NoResult

----------------------------------------------------------------------------
(* The rating specification: score or rating called once on a Player.      *)

AttrHalvings == 1   \* the attributes of the Players called on are 0, 1 and 1/2^j, j <= AttrHalvings
MaxDay == 3         \* the days of the Vibes calls are 0..MaxDay

AttrGrid == {Zero, One} \cup {F64(FALSE, Unit \div Pow2(j)) : j \in 1..AttrHalvings}

\* The Players called on for category c: the attributes the category reads
\* range over AttrGrid, the others are 1/2.
PlayersFor(c) ==
    {[a \in Attrs |-> IF a \in Reads(c) THEN f[a] ELSE Half] : f \in [Reads(c) -> AttrGrid]}

PlayerUnused ==
    /\ target = "x86_64"
    /\ player = <<>>
    /\ cat = "Batting"
    /\ day = 0
    /\ score = None /\ rating = None
    /\ stderr = <<>>
    /\ pc = "unused"

RoundUnused == x = Zero /\ hw = None /\ sw = None /\ hw2 = None /\ sw2 = None

InitRating ==
    /\ RoundUnused
    /\ ClientUnused
    /\ target \in Targets
    /\ cat \in Categories
    /\ player \in PlayersFor(cat)
    /\ day \in (IF cat = "Vibes" THEN 0..MaxDay ELSE {0})
    /\ score = None /\ rating = None
    /\ stderr = <<>>
    /\ pc = "ready"

\* player.score(cat)
Score ==
    /\ pc = "ready"
    /\ \E r \in ScoreResults(player, cat, day) :
        /\ score' = r[1]
        /\ stderr' = stderr \o r[2]
    /\ pc' = "scored"
    /\ UNCHANGED <<roundVars, clientVars, target, player, cat, day, rating>>

\* player.rating(cat)
Rating ==
    /\ pc = "ready"
    /\ \E r \in ScoreResults(player, cat, day) :
        /\ score' = r[1]
        /\ stderr' = stderr \o r[2]
        /\ rating' = RatingOf(r[1])
    /\ pc' = "rated"
    /\ UNCHANGED <<roundVars, clientVars, target, player, cat, day>>

NextRating == Score \/ Rating

SpecRating == InitRating /\ [][NextRating]_vars

\* r is a multiple of 0.5 between lo and hi (integers).
HalfPointIn(r, lo, hi) ==
    /\ r.mag % (Unit \div 2) = 0
    /\ lo * Unit <= Val(r) /\ Val(r) <= hi * Unit

\* C3 as stated: for a Player with attributes in [0, 1], rating(player, category)
\* is a multiple of 0.5 in [0, 5], for every category, Vibes of any day included.
C3_RatingInZeroToFive == pc = "rated" => HalfPointIn(rating, 0, 5)

\* C3 as amended: for a Player with attributes in [0, 1], rating is a multiple
\* of 0.5 in [0, 5] for Batting, Pitching, Defense and Baserunning, and a
\* multiple of 0.5 in [-5, 5] for Vibes.
C3_RatingRange ==
    pc = "rated" =>
        IF cat = "Vibes"
        THEN HalfPointIn(rating, 0 - 5, 5)
        ELSE HalfPointIn(rating, 0, 5)

\* A Batting rating where 10 * score is halfway between two integers.
C3_Witness ==
    /\ pc = "rated" /\ cat = "Batting"
    /\ (2 * FMul(FInt(10), score).mag) % Unit = 0
    /\ FMul(FInt(10), score).mag % Unit # 0
    /\ HalfPointIn(rating, 1, 4)

\* C9: Player::score and Player::rating write no output and modify no state,
\* for every category, Vibes included.
C9_SideEffectFree == pc \in {"scored", "rated"} => stderr = <<>>

----------------------------------------------------------------------------
(* The rounding specification: round_to_even applied to every finite f64,  *)
(* by either build, and applied again to its own result.                   *)

InitRound ==
    /\ x \in Finite
    /\ hw = None /\ sw = None /\ hw2 = None /\ sw2 = None
    /\ PlayerUnused
    /\ ClientUnused

CallX86 ==
    /\ hw = None
    /\ hw' = round_to_even_x86_64(x)
    /\ UNCHANGED <<x, sw, hw2, sw2, playerVars, clientVars>>

CallFallback ==
    /\ sw = None
    /\ sw' = round_to_even_fallback(x)
    /\ UNCHANGED <<x, hw, hw2, sw2, playerVars, clientVars>>

AgainX86 ==
    /\ hw # None /\ hw2 = None
    /\ hw2' = round_to_even_x86_64(hw)
    /\ UNCHANGED <<x, hw, sw, sw2, playerVars, clientVars>>

AgainFallback ==
    /\ sw # None /\ sw2 = None
    /\ sw2' = round_to_even_fallback(sw)
    /\ UNCHANGED <<x, hw, sw, hw2, playerVars, clientVars>>

NextRound == CallX86 \/ CallFallback \/ AgainX86 \/ AgainFallback

SpecRound == InitRound /\ [][NextRound]_vars

\* r is an integer nearest to a, and the even one when a is halfway between two.
NearestTiesEven(a, r) ==
    LET dist == AbsInt(Val(r) - Val(a))
    IN  /\ r.mag % Unit = 0
        /\ 2 * dist <= Unit
        /\ 2 * dist = Unit => (r.mag \div Unit) % 2 = 0

\* The spec's examples, <<2x, round_to_even(x)>>: 0.5 -> 0, 1.5 -> 2, 2.5 -> 2,
\* -0.5 -> 0, -1.5 -> -2.
TieExamples == {<<1, 0>>, <<3, 2>>, <<5, 2>>, <<0 - 1, 0>>, <<0 - 3, 0 - 2>>}

MatchesExamples(a, r) ==
    \A e \in TieExamples : 2 * Val(a) = e[1] * Unit => Val(r) = e[2] * Unit

\* C1: round_to_even(x) is the integer nearest to x, and the even neighbour when
\* x is exactly halfway between two integers (0.5 -> 0, 1.5 -> 2, 2.5 -> 2,
\* -0.5 -> 0, -1.5 -> -2), in the x86_64 build and in the portable build.
C1_NearestTiesToEven ==
    /\ hw # None => NearestTiesEven(x, hw) /\ MatchesExamples(x, hw)
    /\ sw # None => NearestTiesEven(x, sw) /\ MatchesExamples(x, sw)

\* Both builds have rounded -1.5, to -2.
C1_Witness ==
    /\ 2 * Val(x) = (0 - 3) * Unit
    /\ hw # None /\ sw # None
    /\ Val(hw) = (0 - 2) * Unit /\ Val(sw) = (0 - 2) * Unit

\* C2: the x86_64 build and the portable build return the same f64, sign of
\* zero included, for every finite argument.
C2_BuildsAgree == (hw # None /\ sw # None) => hw = sw

\* Both builds have rounded a negative argument above -0.5, to -0.0; and a
\* state where both have rounded a halfway case exists as well (C1_Witness).
C2_Witness ==
    /\ x.neg /\ x.mag > 0 /\ 2 * x.mag <= Unit
    /\ hw # None /\ sw # None
    /\ hw = F64(TRUE, 0) /\ sw = F64(TRUE, 0)

\* C8: round_to_even(round_to_even(x)) == round_to_even(x) for every finite x,
\* in either build.
C8_Idempotent ==
    /\ hw2 # None => FEq(hw2, hw)
    /\ sw2 # None => FEq(sw2, sw)

\* Both builds have rounded the result of rounding a halfway case.
C8_Witness ==
    /\ (2 * x.mag) % Unit = 0 /\ x.mag % Unit # 0
    /\ hw2 # None /\ sw2 # None
    /\ hw2 = hw /\ sw2 = sw

----------------------------------------------------------------------------
(* The client specification: clients are constructed and logged in, and    *)
(* one operation at a time runs through its steps.                         *)

MaxClients == 2     \* at most MaxClients clients are constructed
MaxIdLen == 1       \* an id has at most MaxIdLen characters
MaxIds == 2         \* players is called with at most MaxIds ids
MaxLen == 8         \* the Set-Cookie header of a login response has at most MaxLen tokens

SeqsUpTo(S, n) == UNION {[1..k -> S] : k \in 0..n}

Ids == SeqsUpTo(IdChars, MaxIdLen)

IdLists == SeqsUpTo(Ids, MaxIds)

\* Every Set-Cookie header of at most MaxLen tokens.
Responses == {<<>>} \cup {Append(s, "\n") : s \in SeqsUpTo(CookieTokens, MaxLen - 1)}

\* The Set-Cookie headers that the logins of the client specification meet.
SampleResponses ==
    {<<>>,
     <<"connect.sid", "=", "ABC123", ";", "\n", "ABC123", "=", "ABC123", "\n">>,
     <<"ABC123", "=", "ABC123", "\n", "connect.sid", "=", "connect.sid", "\n">>,
     <<"ABC123", "=", "ABC123", "\n">>}

Init ==
    /\ RoundUnused
    /\ PlayerUnused
    /\ ClientUnused

Returned == call.pc = "idle"

\* BlaseballClient::new()
New ==
    /\ Returned
    /\ Len(clients) < MaxClients
    /\ clients' = Append(clients, BlaseballClientNew)
    /\ UNCHANGED <<call, wire, result, roundVars, playerVars>>

\* c.op(arg) is called: the request is built.
Begin(c, op, arg) ==
    /\ Returned
    /\ op \in OpsOf(clients[c])
    /\ call' = [op |-> op, client |-> c, arg |-> arg,
                pc |-> IF op \in {"team", "players"} THEN "set_query" ELSE "send",
                steps |-> <<>>, req |-> RequestOf(op, clients[c]), resp |-> <<>>]
    /\ wire' = <<>>
    /\ result' = NoResult
    /\ UNCHANGED <<clients, roundVars, playerVars>>

BeginTeam == Returned /\ \E c \in 1..Len(clients), id \in Ids : Begin(c, "team", <<id>>)

BeginAllTeams == Returned /\ \E c \in 1..Len(clients) : Begin(c, "all_teams", <<>>)

BeginPlayers == Returned /\ \E c \in 1..Len(clients), ids \in IdLists : Begin(c, "players", ids)

BeginGetUser == Returned /\ \E c \in 1..Len(clients) : Begin(c, "get_user", <<>>)

\* login(username, password) is called: the credential POST is built.
BeginLogin ==
    /\ Returned
    /\ Len(clients) < MaxClients
    /\ call' = [op |-> "login", client |-> 0, arg |-> <<>>, pc |-> "send",
                steps |-> <<>>, req |-> RequestOf("login", BlaseballClientNew),
                resp |-> <<>>]
    /\ wire' = <<>>
    /\ result' = NoResult
    /\ UNCHANGED <<clients, roundVars, playerVars>>

\* req.set_query(..)? succeeds.
SetQueryOk ==
    /\ call.pc = "set_query"
    /\ call' = [Advance(call, "send") EXCEPT !.req.query = QueryOf(call.op, call.arg)]
    /\ UNCHANGED <<clients, wire, result, roundVars, playerVars>>

\* req.set_query(..)? fails.
SetQueryErr ==
    /\ call.pc = "set_query"
    /\ call' = Propagate(call, "set_query", "UrlEncode").call
    /\ result' = Propagate(call, "set_query", "UrlEncode").result
    /\ UNCHANGED <<clients, wire, roundVars, playerVars>>

\* The request is handed to the transport, which answers; the answer to a
\* login carries one of the Set-Cookie headers of R.
SendOk(R) ==
    /\ call.pc = "send"
    /\ wire' = Append(wire, call.req)
    /\ IF call.op = "login"
       THEN \E r \in R : call' = [Advance(call, "extract") EXCEPT !.resp = r]
       ELSE call' = Advance(call, "body_json")
    /\ UNCHANGED <<clients, result, roundVars, playerVars>>

\* The request is handed to the transport, which fails.
SendErr ==
    /\ call.pc = "send"
    /\ wire' = Append(wire, call.req)
    /\ call' = Propagate(call, "send", "Http").call
    /\ result' = Propagate(call, "send", "Http").result
    /\ UNCHANGED <<clients, roundVars, playerVars>>

\* body_json().await? succeeds.
BodyJsonOk ==
    /\ call.pc = "body_json"
    /\ call' = Advance(call, "done")
    /\ result' = Ok(DecodedOf(call.op))
    /\ UNCHANGED <<clients, wire, roundVars, playerVars>>

\* body_json().await? fails.
BodyJsonErr ==
    /\ call.pc = "body_json"
    /\ call' = Propagate(call, "body_json", "Json").call
    /\ result' = Propagate(call, "body_json", "Json").result
    /\ UNCHANGED <<clients, wire, roundVars, playerVars>>

\* login finds the session cookie in the response and returns the client that
\* holds its value.
ExtractOk ==
    /\ call.pc = "extract"
    /\ ExtractToken(call.resp).found
    /\ clients' = Append(clients, AuthenticatedClientOf(ExtractToken(call.resp).token))
    /\ call' = [Advance(call, "done") EXCEPT !.client = Len(clients) + 1]
    /\ result' = Ok("AuthenticatedClient")
    /\ UNCHANGED <<wire, roundVars, playerVars>>

\* login finds no session cookie in the response.
ExtractErr ==
    /\ call.pc = "extract"
    /\ ~ExtractToken(call.resp).found
    /\ call' = [call EXCEPT !.pc = "done", !.steps = Append(@, Step("extract", FALSE))]
    /\ result' = Err("UnexpectedResponseShape")
    /\ UNCHANGED <<clients, wire, roundVars, playerVars>>

SendSample == SendOk(SampleResponses)

SendAny == SendOk(Responses)

\* The caller takes what the operation returned.
Return ==
    /\ call.pc = "done"
    /\ call' = NoCall
    /\ wire' = <<>>
    /\ result' = NoResult
    /\ UNCHANGED <<clients, roundVars, playerVars>>

Next ==
    \/ New
    \/ BeginTeam
    \/ BeginAllTeams
    \/ BeginPlayers
    \/ BeginGetUser
    \/ BeginLogin
    \/ SetQueryOk
    \/ SetQueryErr
    \/ SendSample
    \/ SendErr
    \/ BodyJsonOk
    \/ BodyJsonErr
    \/ ExtractOk
    \/ ExtractErr
    \/ Return

Spec == Init /\ [][Next]_vars

\* The login specification: one login, whose response carries any Set-Cookie header.
BeginFirstLogin == BeginLogin /\ clients = <<>>

NextLogin ==
    \/ BeginFirstLogin
    \/ SendAny
    \/ SendErr
    \/ ExtractOk
    \/ ExtractErr

SpecLogin == Init /\ [][NextLogin]_vars

----------------------------------------------------------------------------
(* The claims about login and the clients.                                 *)

\* Value i of the header parses as a cookie named connect.sid.
IsSessionCookie(vs, i) ==
    ParseCookie(vs[i]).parsed /\ ParseCookie(vs[i]).name = <<"connect.sid">>

\* The spec's examples of the extraction, <<Set-Cookie header, found, token>>:
\* `connect.sid=ABC123;` and `ABC123=` yield ABC123; a header with no connect.sid
\* entry, an absent header and a value that is no name=value pair yield nothing.
ExtractExamples ==
    {<<<<"connect.sid", "=", "ABC123", ";", "\n", "ABC123", "=", "\n">>, TRUE, <<"ABC123">>>>,
     <<<<"ABC123", "=", "ABC123", "\n">>, FALSE, <<>>>>,
     <<<<>>, FALSE, <<>>>>,
     <<<<"connect.sid", "\n">>, FALSE, <<>>>>}

LoginAnswered ==
    /\ call.op = "login" /\ call.pc = "done"
    /\ call.steps[Len(call.steps)].step = "extract"

\* C4: login takes the token from the first Set-Cookie value that parses as a
\* cookie and is named connect.sid, and stores only that cookie's value; if the
\* header is absent, no value parses or no parsed cookie is named connect.sid,
\* login fails with UnexpectedResponseShape and produces no client.
C4_CookieExtraction ==
    LoginAnswered =>
        LET vs == HeaderValues(call.resp)
            hits == {i \in 1..Len(vs) : IsSessionCookie(vs, i)}
        IN  /\ IF hits # {}
               THEN /\ result = Ok("AuthenticatedClient")
                    /\ Len(clients) = 1
                    /\ clients[1].kind = "AuthenticatedClient"
                    /\ clients[1].session = <<ParseCookie(vs[SetMin(hits)]).value>>
               ELSE /\ result = Err("UnexpectedResponseShape")
                    /\ clients = <<>>
            /\ \A e \in ExtractExamples :
                   call.resp = e[1] =>
                       /\ result.ok = e[2]
                       /\ e[2] => clients[1].session = <<e[3]>>

\* A login answered with an unparseable value, then `connect.sid=ABC123;`, then
\* a second connect.sid cookie: the token is ABC123.
C4_Witness ==
    /\ LoginAnswered
    /\ call.resp = <<"=", "\n", "connect.sid", "=", "ABC123", ";", "connect.sid", "\n">>
    /\ result.ok
    /\ clients = <<AuthenticatedClientOf(<<"ABC123">>)>>

\* C5: the fetch of the current user is reachable only on a client that a
\* successful login produced; a client built by BlaseballClient::new exposes
\* team, all_teams and players and nothing else.
C5_CapabilityGating ==
    /\ \A i \in 1..Len(clients) :
           clients[i].kind = "AuthenticatedClient" => Len(clients[i].session) = 1
    /\ call.op \in {"team", "all_teams", "players", "get_user"} =>
           /\ clients[call.client].kind = "BlaseballClient" =>
                  call.op \in {"team", "all_teams", "players"}
           /\ call.op = "get_user" => clients[call.client].kind = "AuthenticatedClient"
    /\ \A k \in 1..Len(wire) :
           wire[k].url = UserUrl =>
               /\ call.op = "get_user"
               /\ clients[call.client].kind = "AuthenticatedClient"

\* The current user fetched on a logged-in client, next to a client built by new.
C5_Witness ==
    /\ call.op = "get_user" /\ call.pc = "done" /\ result = Ok("User")
    /\ \E i \in 1..Len(clients) : clients[i].kind = "BlaseballClient"
    /\ Len(wire) = 1 /\ wire[1].url = UserUrl

C6_State ==
    /\ \A i \in 1..Len(clients) :
           /\ clients[i].kind = "BlaseballClient" => clients[i].session = <<>>
           /\ clients[i].kind = "AuthenticatedClient" => Len(clients[i].session) = 1
    /\ call.op = "get_user" =>
           \A k \in 1..Len(wire) :
               /\ clients[call.client].session # <<>>
               /\ wire[k].cookie = <<"connect.sid", "=">> \o clients[call.client].session[1]

C6_Step ==
    /\ \A i \in 1..Len(clients) : Len(clients') >= i /\ clients'[i] = clients[i]
    /\ Len(clients') <= Len(clients) + 1
    /\ (Len(clients') > Len(clients)
            /\ clients'[Len(clients')].kind = "AuthenticatedClient") =>
           call.op = "login" /\ result' = Ok("AuthenticatedClient")
    /\ (call.op = "login" /\ call.pc # "done" /\ call'.pc = "done" /\ ~result'.ok) =>
           clients' = clients

\* C6: a client never changes tier: a client built by new holds no token in
\* every state, a logged-in client exists only as the result of a successful
\* login and holds the same token in every state, every session-scoped request
\* carries that token as its Cookie header, and a failed login leaves no client.
C6_TierNeverChanges == []C6_State /\ [][C6_Step]_vars

\* A login has failed for want of a session cookie, after an earlier login built
\* a client: that client is still there, and no other.
C6_Witness ==
    /\ call.op = "login" /\ call.pc = "done"
    /\ result = Err("UnexpectedResponseShape")
    /\ Len(clients) = 1 /\ clients[1].kind = "AuthenticatedClient"

PublicReads == {"team", "all_teams", "players"}

RECURSIVE Offset(_, _)
Offset(strs, i) == IF i <= 1 THEN 0 ELSE Offset(strs, i - 1) + Len(strs[i - 1]) + 1

\* v is the strings of strs in order, with a comma between each two.
IsCommaJoined(v, strs) ==
    /\ Len(v) = IF strs = <<>> THEN 0 ELSE Offset(strs, Len(strs) + 1) - 1
    /\ \A i \in 1..Len(strs) :
           /\ SubSeq(v, Offset(strs, i) + 1, Offset(strs, i) + Len(strs[i])) = strs[i]
           /\ i < Len(strs) => v[Offset(strs, i + 1)] = ","
    /\ strs = <<>> => v = <<>>
    /\ Len(strs) = 1 => v = strs[1]

====
